---- MODULE Spec2Model ----
(***************************************************************************)
(* Zelty ingestion pipeline: the scheduler job SyncZeltyJob, the three     *)
(* synchronizers (SyncRestaurantsHandler, SyncDishesHandler,               *)
(* SyncOrdersHandler), the on-demand command runners and the four tables   *)
(* of the store.                                                           *)
(*                                                                         *)
(* One step of the model is the code a handler runs between two awaits:    *)
(* the arrival of a GET response, the completion of an upsert, the expiry  *)
(* of the inter-page timer.  JavaScript runs that code without             *)
(* interruption, so a handler that returns and the caller that starts the  *)
(* next handler (which issues its first GET) belong to the same step.      *)
(***************************************************************************)
EXTENDS Integers, Sequences, FiniteSets, TLC

\* ------------------------------------------------------------------ bounds
PAGE_LIMIT == 100

\* restaurants the remote API may return
MaxRestaurants == 2
\* full pages a paginated endpoint may hold
MaxPages == 2
\* records on the last (short) page of a paginated endpoint
MaxShort == 2
\* line items nested in one order
MaxItems == 2

\* -------------------------------------------------------------- JS values
\* `undefined`: the remote record does not carry the field
Absent == "undefined"
Null == "null"
EmptyList == "[]"
\* parseInt of a string that does not start with a digit
NaN == -1

\* "scheduler" runs the batch of a tick, "scheduler2" the batch of a tick that
\* fires while the batch before it is still in flight, "cli" a command
Procs == {"scheduler", "scheduler2", "cli"}
Batches == {"scheduler", "scheduler2"}
Handlers == {"restaurants", "dishes", "orders"}

\* x ?? d
Coalesce(x, d) == IF x \in {Absent, Null} THEN d ELSE x

\* x || null   (every falsy string value becomes null)
OrNull(x) == IF x \in {Absent, Null, ""} THEN Null ELSE x

\* parseInt(s): the decimal value of the leading digits of s, NaN without one
DigitChars == <<"0", "1", "2", "3", "4", "5", "6", "7", "8", "9">>
IsDigit(c) == \E i \in 1..10 : DigitChars[i] = c
DigitVal(c) == (CHOOSE i \in 1..10 : DigitChars[i] = c) - 1

RECURSIVE ParseDigits(_, _, _)
ParseDigits(s, i, acc) ==
    IF i > Len(s) \/ ~IsDigit(s[i]) THEN acc
    ELSE ParseDigits(s, i + 1, acc * 10 + DigitVal(s[i]))

ParseInt(s) == IF Len(s) = 0 \/ ~IsDigit(s[1]) THEN NaN ELSE ParseDigits(s, 1, 0)

\* the decimal string of n >= 0, as the remote API sends an item's item_id
RECURSIVE ToDigits(_)
ToDigits(n) ==
    IF n < 10 THEN <<DigitChars[n + 1]>>
    ELSE Append(ToDigits(n \div 10), DigitChars[(n % 10) + 1])

\* ------------------------------------------------------------ remote data
\* What the remote API holds is fixed by four numbers: how many restaurants,
\* dishes and orders it lists, and which of two revisions of their content it
\* serves.  Revision 1 carries every field; revision 2 carries other values,
\* leaves the optional fields out, sends an empty image, gives the last
\* restaurant (number MaxRestaurants) no name, gives the item of order 2 a
\* non-numeric item_id and swaps the UUIDs of orders 1 and 2.
Revisions == {1, 2}

Content(rev) == IF rev = 1 THEN "A" ELSE "B"
Optional(rev, v) == IF rev = 1 THEN v ELSE Absent

RestaurantOf(k) == ((k - 1) % MaxRestaurants) + 1
ItemsOf(k) == IF k = 1 THEN MaxItems ELSE IF k = 2 THEN 1 ELSE 0

RemoteRestaurant(k, rev) ==
    [id |-> k,
     name |-> IF rev = 2 /\ k = MaxRestaurants THEN Absent ELSE Content(rev),
     disable |-> Optional(rev, "true"),
     description |-> Optional(rev, "A"),
     image |-> IF rev = 1 THEN "A" ELSE "",
     closures |-> Optional(rev, "A")]

RemoteDish(k, rev) ==
    [id |-> k,
     id_restaurant |-> RestaurantOf(k),
     name |-> Content(rev),
     description |-> Optional(rev, "A"),
     tags |-> Optional(rev, "A"),
     disable |-> Optional(rev, "true")]

RemoteItem(k, j, rev) ==
    [id |-> (k - 1) * MaxItems + j,
     item_id |-> IF rev = 2 /\ k = 2 THEN <<"x">> ELSE ToDigits(ItemsOf(k) + 1 - j),
     name |-> Content(rev),
     type |-> Optional(rev, "A"),
     modifiers |-> Optional(rev, "A")]

RemoteOrder(k, rev) ==
    [id |-> k,
     uuid |-> IF rev = 2 /\ k \in {1, 2} THEN 3 - k ELSE k,
     id_restaurant |-> RestaurantOf(k),
     status |-> Content(rev),
     comment |-> Optional(rev, "A"),
     items |-> [j \in 1..ItemsOf(k) |-> RemoteItem(k, j, rev)]]

\* GET restaurants: the whole list in one response
RestaurantList(rem) == [k \in 1..rem.nr |-> RemoteRestaurant(k, rem.rev)]

\* GET catalog/dishes and GET orders: the records offset+1 .. offset+limit
PageLen(n, offset) ==
    IF n <= offset THEN 0 ELSE IF n - offset > PAGE_LIMIT THEN PAGE_LIMIT ELSE n - offset

DishPage(rem, offset) ==
    [i \in 1..PageLen(rem.nd, offset) |-> RemoteDish(offset + i, rem.rev)]

OrderPage(rem, offset) ==
    [i \in 1..PageLen(rem.no, offset) |-> RemoteOrder(offset + i, rem.rev)]

\* --------------------------------------------------------- field mapping
RestaurantData(restaurant) ==
    [name |-> restaurant.name,
     disable |-> restaurant.disable,
     description |-> restaurant.description,
     image |-> OrNull(restaurant.image),
     closures |-> Coalesce(restaurant.closures, EmptyList)]

DishData(dish) ==
    [zeltyRestaurantId |-> dish.id_restaurant,
     name |-> dish.name,
     description |-> Coalesce(dish.description, Null),
     tags |-> Coalesce(dish.tags, EmptyList),
     disable |-> Coalesce(dish.disable, "false")]

OrderData(order) ==
    [zeltyUuid |-> order.uuid,
     zeltyRestaurantId |-> order.id_restaurant,
     status |-> order.status,
     comment |-> Coalesce(order.comment, Null)]

ItemData(order, item) ==
    [zeltyOrderId |-> order.id,
     zeltyDishId |-> ParseInt(item.item_id),
     name |-> item.name,
     type |-> Coalesce(item.type, "dish"),
     modifiers |-> Coalesce(item.modifiers, EmptyList)]

\* ------------------------------------------------------------- the store
\* The text columns of each table, the ones a record may leave undefined.
RestaurantColumns == {"name", "disable", "description", "image", "closures"}
DishColumns == {"name", "description", "tags", "disable"}
OrderColumns == {"status", "comment"}
ItemColumns == {"name", "type", "modifiers"}

\* Column defaults of the migrations; NOT NULL columns without a default
\* (name, status) have none and must be given on create.
RestaurantDefaults ==
    [disable |-> "false", description |-> Null, image |-> Null, closures |-> EmptyList]
DishDefaults == [description |-> Null, tags |-> EmptyList, disable |-> "false"]
OrderDefaults == [comment |-> Null]
ItemDefaults == [modifiers |-> EmptyList]

\* (mutant) an insert in place of the upsert: a record whose id has a row
\* gets a second row
UpsertedByInsert(table, id, data, columns, defaults) ==
    LET key == IF id \in DOMAIN table THEN id + 1000 ELSE id
    IN  [k \in DOMAIN table \cup {key} |->
            IF k = key THEN [f \in DOMAIN data |->
                               IF f \in columns /\ f \in DOMAIN defaults /\ data[f] = Absent
                               THEN defaults[f] ELSE data[f]]
            ELSE table[k]]

\* create: an undefined field is left out of the INSERT and takes its default
Created(data, columns, defaults) ==
    [f \in DOMAIN data |->
        IF f \in columns /\ f \in DOMAIN defaults /\ data[f] = Absent
        THEN defaults[f] ELSE data[f]]

\* update: an undefined field is left out of the UPDATE and keeps its value
Updated(row, data, columns) ==
    [f \in DOMAIN data |->
        IF f \in columns /\ data[f] = Absent THEN row[f] ELSE data[f]]

\* the client refuses a create that lacks a required column
Complete(data, columns, defaults) ==
    \A f \in columns : data[f] = Absent => f \in DOMAIN defaults

\* (mutant) the upsert mirrors the listing: rows beyond the record just
\* written are taken for stale and dropped
UpsertedDroppingStale(table, id, data, columns, defaults) ==
    [k \in {j \in DOMAIN table \cup {id} : j <= id} |->
        IF k = id
        THEN IF id \in DOMAIN table THEN Updated(table[id], data, columns)
             ELSE Created(data, columns, defaults)
        ELSE table[k]]

Upserted(table, id, data, columns, defaults) ==
    IF id \in DOMAIN table
    THEN [table EXCEPT ![id] = Updated(@, data, columns)]
    ELSE [k \in DOMAIN table \cup {id} |->
            IF k = id THEN Created(data, columns, defaults) ELSE table[k]]

\* ------------------------------------------------------------------ dates
\* A date is the local calendar day of a JavaScript Date: the date-fns
\* functions the order handler uses all work on the local calendar.
FirstYear == 2024
LastYear == 2025

\* the Date argument that was not given
NoDate == [year |-> 0, month |-> 0, day |-> 0]

IsLeapYear(y) == (y % 4 = 0 /\ y % 100 # 0) \/ y % 400 = 0

DaysInMonth(y, m) ==
    IF m = 2 THEN (IF IsLeapYear(y) THEN 29 ELSE 28)
    ELSE IF m \in {4, 6, 9, 11} THEN 30 ELSE 31

\* the calendar day after d: what the clock shows once midnight has passed
NextDay(d) ==
    IF d.day < DaysInMonth(d.year, d.month) THEN [d EXCEPT !.day = @ + 1]
    ELSE IF d.month < 12 THEN [d EXCEPT !.month = @ + 1, !.day = 1]
    ELSE [year |-> d.year + 1, month |-> 1, day |-> 1]

\* dateUtils.startOfMonth(d)
StartOfMonth(d) == [d EXCEPT !.day = 1]

\* dateUtils.endOfMonth(d)
EndOfMonth(d) == [d EXCEPT !.day = DaysInMonth(d.year, d.month)]

\* dateUtils.sub(d, { days })
RECURSIVE Sub(_, _)
Sub(d, days) ==
    IF days = 0 THEN d
    ELSE IF d.day > 1 THEN Sub([d EXCEPT !.day = @ - 1], days - 1)
    ELSE IF d.month > 1
         THEN Sub([d EXCEPT !.month = @ - 1, !.day = DaysInMonth(d.year, d.month - 1)],
                  days - 1)
    ELSE Sub([year |-> d.year - 1, month |-> 12, day |-> 31], days - 1)

\* the decimal digits of n, padded with zeros on the left to the given width
RECURSIVE Padded(_, _)
Padded(digits, width) ==
    IF Len(digits) >= width THEN digits ELSE Padded(<<"0">> \o digits, width)

\* dateUtils.format(d, 'yyyy-MM-dd')
Format(d) ==
    Padded(ToDigits(d.year), 4) \o <<"-">> \o Padded(ToDigits(d.month), 2)
        \o <<"-">> \o Padded(ToDigits(d.day), 2)

\* new Date(s) for s a date-only string 'YYYY-MM-DD': the instant of midnight
\* UTC of that day, as the local calendar day it falls on where local time
\* is offset hours ahead of UTC
NewDate(s, offset) ==
    LET utcDay == [year |-> ParseInt(SubSeq(s, 1, 4)),
                   month |-> ParseInt(SubSeq(s, 6, 7)),
                   day |-> ParseInt(SubSeq(s, 9, 10))]
        localHour == 0 + offset
    IN  IF localHour < 0 THEN Sub(utcDay, 1)
        ELSE IF localHour >= 24 THEN NextDay(utcDay)
        ELSE utcDay

\* (mutant) the default lower bound without the step back by one day
DefaultFromDateStartOfMonth(now) == StartOfMonth(now)

\* fromDate ?? dateUtils.sub(dateUtils.startOfMonth(new Date()), { days: 1 })
DefaultFromDate(now) == Sub(StartOfMonth(now), 1)

\* toDate ?? dateUtils.endOfMonth(new Date())
DefaultToDate(now) == EndOfMonth(now)

\* ------------------------------------------------------- remote API client
\* Header names are sequences of characters, so that toLowerCase is computed.
UpperCase == <<"A", "B", "C", "D", "E", "F", "G", "H", "I", "J", "K", "L", "M",
               "N", "O", "P", "Q", "R", "S", "T", "U", "V", "W", "X", "Y", "Z">>
LowerCase == <<"a", "b", "c", "d", "e", "f", "g", "h", "i", "j", "k", "l", "m",
               "n", "o", "p", "q", "r", "s", "t", "u", "v", "w", "x", "y", "z">>

\* key.toLowerCase()
ToLowerCase(key) ==
    [i \in DOMAIN key |->
        IF \E j \in 1..26 : UpperCase[j] = key[i]
        THEN LowerCase[CHOOSE j \in 1..26 : UpperCase[j] = key[i]]
        ELSE key[i]]

\* const sensitiveKeys = ['authorization', 'cookie', 'x-api-key']
sensitiveKeys ==
    {<<"a", "u", "t", "h", "o", "r", "i", "z", "a", "t", "i", "o", "n">>,
     <<"c", "o", "o", "k", "i", "e">>,
     <<"x", "-", "a", "p", "i", "-", "k", "e", "y">>}

Redacted == "[REDACTED]"

\* the header `Authorization: Bearer <API_ZELTY_KEY>` that createClient sets
AuthorizationHeader == <<"A", "u", "t", "h", "o", "r", "i", "z", "a", "t", "i", "o", "n">>
Credential == "Bearer API_ZELTY_KEY"

\* headers a request may carry beside it, with their values
OtherHeaders ==
    {<<"A", "c", "c", "e", "p", "t">>,
     <<"C", "o", "o", "k", "i", "e">>,
     <<"X", "-", "A", "P", "I", "-", "K", "e", "y">>,
     <<"x", "-", "a", "p", "i", "-", "k", "e", "y", "s">>}

HeaderValue(name) ==
    IF ToLowerCase(name) = ToLowerCase(AuthorizationHeader) THEN Credential
    ELSE IF name[1] = "A" THEN "application/json"
    ELSE IF name[1] = "C" THEN "session=1"
    ELSE "key"

\* the headers of a request: none at all (an error that carries no config),
\* or Authorization and some of the others
HeaderSets ==
    {[present |-> FALSE, fields |-> [n \in {} |-> ""]]} \cup
    {[present |-> TRUE, fields |-> [n \in names \cup {AuthorizationHeader} |-> HeaderValue(n)]] :
        names \in SUBSET OtherHeaders}

\* (mutant) the comparison without toLowerCase
sanitizeHeadersCaseSensitive(headers) ==
    IF ~headers.present THEN headers
    ELSE [headers EXCEPT !.fields =
            [key \in DOMAIN headers.fields |->
                IF key \in sensitiveKeys THEN Redacted ELSE headers.fields[key]]]

\* ZeltyService.sanitizeHeaders: a copy of the headers, the values of the
\* sensitive keys replaced; undefined for undefined
sanitizeHeaders(headers) ==
    IF ~headers.present THEN headers
    ELSE [headers EXCEPT !.fields =
            [key \in DOMAIN headers.fields |->
                IF ToLowerCase(key) \in sensitiveKeys THEN Redacted
                ELSE headers.fields[key]]]

\* what the remote can answer with an error: no response at all, or a status
\* outside 2xx
AxiosErrors ==
    {[code |-> "ECONNRESET", status |-> 0],
     [code |-> "ERR_BAD_REQUEST", status |-> 401],
     [code |-> "ERR_BAD_RESPONSE", status |-> 500]}
NoError == [code |-> "none", status |-> 0]

\* ZeltyService.logAxiosError: the entry handed to logger.error
logAxiosError(error, headers) ==
    [code |-> error.code, status |-> error.status,
     requestHeaders |-> sanitizeHeaders(headers)]

\* order-sync is not executing
NoCall ==
    [pc |-> "idle", fromArg |-> <<>>, toArg |-> <<>>,
     fromGiven |-> FALSE, toGiven |-> FALSE,
     fromRead |-> NoDate, toRead |-> NoDate,
     fromDate |-> NoDate, toDate |-> NoDate, offset |-> 0, thrown |-> NoError]

\* no GET has been issued
NoRequest ==
    [attempts |-> 0, offset |-> 0, from |-> <<>>, to |-> <<>>,
     headers |-> [present |-> FALSE, fields |-> [n \in {} |-> ""]],
     received |-> NoError]

\* ------------------------------------------------------------------ state
VARIABLES
    remote,          \* what the remote API holds: [nr, nd, no, rev]
    zeltyRestaurant, \* table ZeltyRestaurant: zeltyId -> row
    zeltyDish,       \* table ZeltyDish
    zeltyOrder,      \* table ZeltyOrder
    zeltyOrderItem,  \* table ZeltyOrderItem
    run,             \* per process: the handler it executes and that handler's locals
    reply,           \* per process: outcome of the GET in flight
    obs,             \* per process: what its current invocation has logged and returned
    written,         \* per process: the rows its current handler run has written
    settled,         \* handler whose last run succeeded on the data the remote still holds
    clock,           \* the local calendar date `new Date()` gives
    utcOffset,       \* hours the local time of the process is ahead of UTC
    call,            \* order-sync seen at its requests: its date bounds and offset
    request,         \* the GET that call has with the remote API client
    clientLog        \* what the client has logged for that call

vars == <<remote, zeltyRestaurant, zeltyDish, zeltyOrder, zeltyOrderItem,
          run, reply, obs, written, settled, clock, utcOffset, call, request,
          clientLog>>
clientVars == <<clock, utcOffset, call, request, clientLog>>
tables == <<zeltyRestaurant, zeltyDish, zeltyOrder, zeltyOrderItem>>

Counts == {p * PAGE_LIMIT + s : p \in 0..MaxPages, s \in 0..MaxShort}

NoRows == [k \in {} |-> k]
NoWrites == [rows |-> NoRows, items |-> NoRows]

\* no handler is executing
Idle ==
    [pc |-> "idle", handler |-> "none", offset |-> 0, totalSynced |-> 0,
     data |-> <<>>, pos |-> 0, itemPos |-> 0]

\* execute() has initialised its locals and awaits its first GET
Begin(h) ==
    [pc |-> "get", handler |-> h, offset |-> 0, totalSynced |-> 0,
     data |-> <<>>, pos |-> 0, itemPos |-> 0]

NoStats ==
    [result |-> "none", requests |-> 0, fetched |-> 0, fullPages |-> 0,
     shortLen |-> -1, synced |-> -1]
FirstRequest == [NoStats EXCEPT !.result = "running", !.requests = 1]

NoObs ==
    [previous |-> "none", invoked |-> <<>>, completed |-> FALSE, error |-> "none",
     stats |-> [h \in Handlers |-> NoStats]]

\* "error" when the invocation observed by o has thrown, "none" otherwise
Outcome(o) == IF o.error # "none" THEN "error" ELSE "none"

\* the invocation calls handler h
Invoking(o, h) ==
    [o EXCEPT !.invoked = Append(@, h), !.stats[h] = FirstRequest]

Init ==
    /\ remote \in [nr : 0..MaxRestaurants, nd : Counts, no : Counts, rev : Revisions]
    /\ remote.nd <= MaxShort \/ remote.no = 0
    /\ remote.no <= MaxShort \/ remote.nd = 0
    /\ zeltyRestaurant = NoRows
    /\ zeltyDish = NoRows
    /\ zeltyOrder = NoRows
    /\ zeltyOrderItem = NoRows
    /\ run = [p \in Procs |-> Idle]
    /\ reply = [p \in Procs |-> "none"]
    /\ obs = [p \in Procs |-> NoObs]
    /\ written = [p \in Procs |-> NoWrites]
    /\ settled = "none"
    /\ clock = [year |-> FirstYear, month |-> 1, day |-> 1]
    /\ utcOffset = 0
    /\ call = NoCall
    /\ request = NoRequest
    /\ clientLog = <<>>

\* ----------------------------------------------------- store constraints
\* ZeltyRestaurant: name is NOT NULL without a default
RestaurantAccepted(data) == Complete(data, RestaurantColumns, RestaurantDefaults)

\* (mutant) the dish table without its foreign key
DishAcceptedNoForeignKey(data) == Complete(data, DishColumns, DishDefaults)

\* ZeltyDish: name NOT NULL; ZeltyDish_zeltyRestaurantId_fkey
DishAccepted(data) ==
    /\ Complete(data, DishColumns, DishDefaults)
    /\ data.zeltyRestaurantId \in DOMAIN zeltyRestaurant

\* (mutant) the order table without the unique index on zeltyUuid
OrderAcceptedNoUuidKey(id, data) ==
    /\ Complete(data, OrderColumns, OrderDefaults)
    /\ data.zeltyRestaurantId \in DOMAIN zeltyRestaurant

\* (mutant) the order handler creates where it should upsert: an order whose
\* row exists is a unique violation on zeltyId
OrderAcceptedCreateOnly(id, data) ==
    /\ Complete(data, OrderColumns, OrderDefaults)
    /\ id \notin DOMAIN zeltyOrder
    /\ \A k \in DOMAIN zeltyOrder : zeltyOrder[k].zeltyUuid # data.zeltyUuid
    /\ data.zeltyRestaurantId \in DOMAIN zeltyRestaurant

\* ZeltyOrder: status NOT NULL; ZeltyOrder_zeltyUuid_key;
\* ZeltyOrder_zeltyRestaurantId_fkey
OrderAccepted(id, data) ==
    /\ Complete(data, OrderColumns, OrderDefaults)
    /\ \A k \in DOMAIN zeltyOrder : k # id => zeltyOrder[k].zeltyUuid # data.zeltyUuid
    /\ data.zeltyRestaurantId \in DOMAIN zeltyRestaurant

\* ZeltyOrderItem: name NOT NULL; zeltyDishId an integer;
\* ZeltyOrderItem_zeltyOrderId_fkey, ZeltyOrderItem_zeltyDishId_fkey
ItemAccepted(data) ==
    /\ Complete(data, ItemColumns, ItemDefaults)
    /\ data.zeltyDishId # NaN
    /\ data.zeltyOrderId \in DOMAIN zeltyOrder
    /\ data.zeltyDishId \in DOMAIN zeltyDish

\* ------------------------------------------------------------- the caller
\* (mutant) the job awaits the order handler before the dish handler
FollowingOrdersFirst(h) ==
    IF h = "restaurants" THEN "orders" ELSE IF h = "orders" THEN "dishes" ELSE "none"

\* SyncZeltyJob.execute awaits the three handlers in this order
Following(h) ==
    IF h = "restaurants" THEN "dishes" ELSE IF h = "dishes" THEN "orders" ELSE "none"

\* the handler the caller of process p invokes once handler h has returned
NextHandler(p, h) == IF p \in Batches THEN Following(h) ELSE "none"

\* Handler h of process p returns normally.  o is what the invocation has
\* observed so far, log the total of the 'Successfully synced' line (-1 when
\* the handler logs none), w the rows the run has written.
ReturnsOk(p, o, h, log, w) ==
    LET done == [o EXCEPT !.stats[h].result = "ok", !.stats[h].synced = log]
        next == NextHandler(p, h)
    IN  IF next # "none"
        THEN /\ run' = [run EXCEPT ![p] = Begin(next)]
             /\ obs' = [obs EXCEPT ![p] = Invoking(done, next)]
             /\ \E a \in {"ok", "error"} : reply' = [reply EXCEPT ![p] = a]
             /\ written' = [written EXCEPT ![p] = NoWrites]
             /\ settled' = "none"
        ELSE /\ run' = [run EXCEPT ![p] = Idle]
             /\ obs' = [obs EXCEPT ![p] = [done EXCEPT !.completed = (p \in Batches)]]
             /\ reply' = [reply EXCEPT ![p] = "none"]
             /\ written' = [written EXCEPT ![p] = w]
             /\ settled' = h

\* (mutant) the loop breaks on an empty page only: after a short page it
\* moves the offset on and requests one more page
AfterRecordNoShortBreak(r) ==
    IF r.pos < Len(r.data)
    THEN [r EXCEPT !.pc = "upsert", !.pos = @ + 1, !.itemPos = 0]
    ELSE [r EXCEPT !.pc = "sleep", !.totalSynced = @ + Len(r.data),
                   !.offset = @ + PAGE_LIMIT,
                   !.data = <<>>, !.pos = 0, !.itemPos = 0]

\* (mutant) the loop breaks after a full page as well: `<=` for `<`
AfterRecordBreaksOnFullPage(r) ==
    IF r.pos < Len(r.data)
    THEN [r EXCEPT !.pc = "upsert", !.pos = @ + 1, !.itemPos = 0]
    ELSE [r EXCEPT !.pc = "returned", !.totalSynced = @ + Len(r.data)]

\* (mutant) the loop leaves the offset where it is: the next request asks for
\* the same page again
AfterRecordSameOffset(r) ==
    IF r.pos < Len(r.data)
    THEN [r EXCEPT !.pc = "upsert", !.pos = @ + 1, !.itemPos = 0]
    ELSE IF Len(r.data) < PAGE_LIMIT
         THEN [r EXCEPT !.pc = "returned", !.totalSynced = @ + Len(r.data)]
         ELSE [r EXCEPT !.pc = "sleep", !.totalSynced = @ + Len(r.data),
                        !.data = <<>>, !.pos = 0, !.itemPos = 0]

\* (mutant) the loop has no timer: after a full page it goes straight to the
\* next request
AfterRecordNoPause(r) ==
    IF r.pos < Len(r.data)
    THEN [r EXCEPT !.pc = "upsert", !.pos = @ + 1, !.itemPos = 0]
    ELSE IF Len(r.data) < PAGE_LIMIT
         THEN [r EXCEPT !.pc = "returned", !.totalSynced = @ + Len(r.data)]
         ELSE [r EXCEPT !.pc = "get", !.totalSynced = @ + Len(r.data),
                        !.offset = @ + PAGE_LIMIT,
                        !.data = <<>>, !.pos = 0, !.itemPos = 0]

\* (mutant) the offset moves on by one less than a page: the next page
\* starts with the record the page before ended with
AfterRecordOverlappingPages(r) ==
    IF r.pos < Len(r.data)
    THEN [r EXCEPT !.pc = "upsert", !.pos = @ + 1, !.itemPos = 0]
    ELSE IF Len(r.data) < PAGE_LIMIT
         THEN [r EXCEPT !.pc = "returned", !.totalSynced = @ + Len(r.data)]
         ELSE [r EXCEPT !.pc = "sleep", !.totalSynced = @ + Len(r.data),
                        !.offset = @ + PAGE_LIMIT - 1,
                        !.data = <<>>, !.pos = 0, !.itemPos = 0]

\* The locals of a dish or order run once record data[pos] is done with: the
\* next record of the page; after the last one the total grows by the page's
\* length and the loop breaks on a short page ("returned") or moves the
\* offset on and waits for the timer.
AfterRecord(r) ==
    IF r.pos < Len(r.data)
    THEN [r EXCEPT !.pc = "upsert", !.pos = @ + 1, !.itemPos = 0]
    ELSE IF Len(r.data) < PAGE_LIMIT
         THEN [r EXCEPT !.pc = "returned", !.totalSynced = @ + Len(r.data)]
         ELSE [r EXCEPT !.pc = "sleep", !.totalSynced = @ + Len(r.data),
                        !.offset = @ + PAGE_LIMIT,
                        !.data = <<>>, !.pos = 0, !.itemPos = 0]

\* process p carries on with locals r, having written w
Proceeds(p, r, w) ==
    IF r.pc = "returned"
    THEN ReturnsOk(p, obs[p], r.handler, r.totalSynced, w)
    ELSE /\ run' = [run EXCEPT ![p] = r]
         /\ written' = [written EXCEPT ![p] = w]
         /\ UNCHANGED <<obs, reply, settled>>

\* (mutant) the catch block of handler h logs the error and does not rethrow
\* it: the handler returns normally
ThrowsSwallowed(p, o, h, e) ==
    /\ ReturnsOk(p, o, h, -1, written[p])
    /\ UNCHANGED tables

\* (mutant) the catch block of handler h undoes the run: it deletes the rows
\* the run has written before it rethrows
ThrowsRollingBack(p, o, h, e) ==
    LET kept(table, rows) == [k \in DOMAIN table \ DOMAIN rows |-> table[k]]
    IN  /\ run' = [run EXCEPT ![p] = Idle]
        /\ obs' = [obs EXCEPT ![p] = [o EXCEPT !.stats[h].result = "error", !.error = e]]
        /\ reply' = [reply EXCEPT ![p] = "none"]
        /\ zeltyRestaurant' =
              IF h = "restaurants" THEN kept(zeltyRestaurant, written[p].rows)
              ELSE zeltyRestaurant
        /\ zeltyDish' = IF h = "dishes" THEN kept(zeltyDish, written[p].rows) ELSE zeltyDish
        /\ zeltyOrderItem' = kept(zeltyOrderItem, written[p].items)
        /\ zeltyOrder' = IF h = "orders" THEN kept(zeltyOrder, written[p].rows) ELSE zeltyOrder
        /\ UNCHANGED <<written, settled>>

\* (mutant) the caller catches the error of handler h and carries on with the
\* handler that follows
ThrowsCaughtByCaller(p, o, h, e) ==
    LET failed == [o EXCEPT !.stats[h].result = "error", !.error = e]
        next == NextHandler(p, h)
    IN  /\ IF next # "none"
           THEN /\ run' = [run EXCEPT ![p] = Begin(next)]
                /\ obs' = [obs EXCEPT ![p] = Invoking(failed, next)]
                /\ \E a \in {"ok", "error"} : reply' = [reply EXCEPT ![p] = a]
                /\ written' = [written EXCEPT ![p] = NoWrites]
           ELSE /\ run' = [run EXCEPT ![p] = Idle]
                /\ obs' = [obs EXCEPT ![p] = [failed EXCEPT !.completed = (p \in Batches)]]
                /\ reply' = [reply EXCEPT ![p] = "none"]
                /\ UNCHANGED written
        /\ UNCHANGED <<tables, settled>>

\* Handler h of process p logs the error e in its catch block and rethrows
\* it; neither the job nor a command runner catches it.  The catch block
\* writes nothing to the store.
Throws(p, o, h, e) ==
    /\ run' = [run EXCEPT ![p] = Idle]
    /\ obs' = [obs EXCEPT ![p] = [o EXCEPT !.stats[h].result = "error", !.error = e]]
    /\ reply' = [reply EXCEPT ![p] = "none"]
    /\ UNCHANGED <<tables, written, settled>>

\* no invocation is in flight
Quiet == \A q \in Procs : run[q].pc = "idle"

\* (mutant) the handler keeps its offset in a field of the provider: an
\* invocation that follows an aborted run carries on after the full pages
\* that run had processed
StartsResuming(p, h) ==
    /\ Quiet
    /\ run' = [run EXCEPT ![p] =
                 [Begin(h) EXCEPT !.offset =
                     IF obs[p].stats[h].result = "error"
                     THEN obs[p].stats[h].fullPages * PAGE_LIMIT ELSE 0]]
    /\ obs' = [q \in Procs |->
                IF q = p THEN Invoking([NoObs EXCEPT !.previous = Outcome(obs[p])], h)
                ELSE NoObs]
    /\ \E a \in {"ok", "error"} : reply' = [reply EXCEPT ![p] = a]
    /\ written' = [q \in Procs |-> NoWrites]
    /\ settled' = IF settled = h THEN h ELSE "none"
    /\ UNCHANGED <<remote, tables, clientVars>>

\* process p invokes handler h as the first handler of a new invocation
Starts(p, h) ==
    /\ Quiet
    /\ run' = [run EXCEPT ![p] = Begin(h)]
    /\ obs' = [q \in Procs |->
                IF q = p THEN Invoking([NoObs EXCEPT !.previous = Outcome(obs[p])], h)
                ELSE NoObs]
    /\ \E a \in {"ok", "error"} : reply' = [reply EXCEPT ![p] = a]
    /\ written' = [q \in Procs |-> NoWrites]
    /\ settled' = IF settled = h THEN h ELSE "none"
    /\ UNCHANGED <<remote, tables, clientVars>>

\* ---------------------------------------------------------------- actions
\* (mutant) a tick that threw stops the schedule
TickUnlessFailed ==
    /\ obs["scheduler"].error = "none"
    /\ Starts("scheduler", "restaurants")

\* the cron expression fires
Tick == Starts("scheduler", "restaurants")

\* the operator runs sync:restaurants, sync:dishes or sync:orders
RunSyncRestaurants == Starts("cli", "restaurants")
RunSyncDishes == Starts("cli", "dishes")
RunSyncOrders == Starts("cli", "orders")

\* the GET of process p fails: the client rejects with the AxiosError
GetFails(p) ==
    /\ run[p].pc = "get"
    /\ reply[p] = "error"
    /\ Throws(p, obs[p], run[p].handler, "AxiosError")
    /\ UNCHANGED <<remote, clientVars>>

\* what one more received page adds to the statistics of handler h: the
\* records and full pages received, and the length of the first page that
\* was not full
Received(o, h, page) ==
    [o EXCEPT !.stats[h].fetched = @ + Len(page),
              !.stats[h].fullPages = @ + (IF Len(page) = PAGE_LIMIT THEN 1 ELSE 0),
              !.stats[h].shortLen =
                  IF @ = -1 /\ Len(page) < PAGE_LIMIT THEN Len(page) ELSE @]

\* the first record of a non-empty response is sent to the store
FirstRecord(r, page) == [r EXCEPT !.pc = "upsert", !.data = page, !.pos = 1]

\* SyncRestaurantsHandler: the restaurant list arrives
GetRestaurants(p) ==
    /\ run[p].pc = "get"
    /\ run[p].handler = "restaurants"
    /\ reply[p] = "ok"
    /\ LET page == RestaurantList(remote)
           o == Received(obs[p], "restaurants", page)
       IN  IF Len(page) = 0
           THEN ReturnsOk(p, o, "restaurants", -1, written[p])
           ELSE /\ run' = [run EXCEPT ![p] = FirstRecord(@, page)]
                /\ obs' = [obs EXCEPT ![p] = o]
                /\ reply' = [reply EXCEPT ![p] = "none"]
                /\ UNCHANGED <<written, settled>>
    /\ UNCHANGED <<remote, tables, clientVars>>

\* the rows w with row id of table added to the rows of the run
WithRow(w, id, table) ==
    [w EXCEPT !.rows = [k \in DOMAIN @ \cup {id} |-> IF k = id THEN table[k] ELSE @[k]]]
WithItem(w, id, table) ==
    [w EXCEPT !.items = [k \in DOMAIN @ \cup {id} |-> IF k = id THEN table[k] ELSE @[k]]]

\* SyncRestaurantsHandler: the upsert of restaurant data[pos] completes
RestaurantUpserted(p) ==
    /\ run[p].pc = "upsert"
    /\ run[p].handler = "restaurants"
    /\ LET r == run[p]
           restaurant == r.data[r.pos]
           data == RestaurantData(restaurant)
           table == Upserted(zeltyRestaurant, restaurant.id, data,
                             RestaurantColumns, RestaurantDefaults)
           w == WithRow(written[p], restaurant.id, table)
       IN  IF RestaurantAccepted(data)
           THEN /\ zeltyRestaurant' = table
                /\ IF r.pos < Len(r.data)
                   THEN /\ run' = [run EXCEPT ![p].pos = @ + 1]
                        /\ written' = [written EXCEPT ![p] = w]
                        /\ UNCHANGED <<obs, reply, settled>>
                   ELSE ReturnsOk(p, obs[p], "restaurants", -1, w)
                /\ UNCHANGED <<zeltyDish, zeltyOrder, zeltyOrderItem>>
           ELSE Throws(p, obs[p], "restaurants", "PrismaError")
    /\ UNCHANGED <<remote, clientVars>>

\* a page of a dish or order run arrives
GetPage(p, h, page) ==
    /\ run[p].pc = "get"
    /\ run[p].handler = h
    /\ reply[p] = "ok"
    /\ LET o == Received(obs[p], h, page)
       IN  IF Len(page) = 0
           THEN ReturnsOk(p, o, h, run[p].totalSynced, written[p])
           ELSE /\ run' = [run EXCEPT ![p] = FirstRecord(@, page)]
                /\ obs' = [obs EXCEPT ![p] = o]
                /\ reply' = [reply EXCEPT ![p] = "none"]
                /\ UNCHANGED <<written, settled>>
    /\ UNCHANGED <<remote, tables, clientVars>>

\* SyncDishesHandler: the page at the current offset arrives
GetDishes(p) == GetPage(p, "dishes", DishPage(remote, run[p].offset))

\* SyncOrdersHandler: the page at the current offset arrives
GetOrders(p) == GetPage(p, "orders", OrderPage(remote, run[p].offset))

\* (mutant) the dish upsert carries a nested connectOrCreate for its
\* restaurant: a dish whose restaurant has no row creates that row
DishUpsertedConnectOrCreate(p) ==
    /\ run[p].pc = "upsert"
    /\ run[p].handler = "dishes"
    /\ LET r == run[p]
           dish == r.data[r.pos]
           data == DishData(dish)
           table == Upserted(zeltyDish, dish.id, data, DishColumns, DishDefaults)
           stub == RestaurantData(RemoteRestaurant(data.zeltyRestaurantId, 1))
       IN  /\ zeltyDish' = table
           /\ zeltyRestaurant' =
                 IF data.zeltyRestaurantId \in DOMAIN zeltyRestaurant
                 THEN zeltyRestaurant
                 ELSE Upserted(zeltyRestaurant, data.zeltyRestaurantId, stub,
                               RestaurantColumns, RestaurantDefaults)
           /\ Proceeds(p, AfterRecord(r), WithRow(written[p], dish.id, table))
           /\ UNCHANGED <<zeltyOrder, zeltyOrderItem>>
    /\ UNCHANGED <<remote, clientVars>>

\* SyncDishesHandler: the upsert of dish data[pos] completes
DishUpserted(p) ==
    /\ run[p].pc = "upsert"
    /\ run[p].handler = "dishes"
    /\ LET r == run[p]
           dish == r.data[r.pos]
           data == DishData(dish)
           table == Upserted(zeltyDish, dish.id, data, DishColumns, DishDefaults)
       IN  IF DishAccepted(data)
           THEN /\ zeltyDish' = table
                /\ Proceeds(p, AfterRecord(r), WithRow(written[p], dish.id, table))
                /\ UNCHANGED <<zeltyRestaurant, zeltyOrder, zeltyOrderItem>>
           ELSE Throws(p, obs[p], "dishes", "PrismaError")
    /\ UNCHANGED <<remote, clientVars>>

\* SyncOrdersHandler: the upsert of order data[pos] completes; its items, if
\* any, follow
OrderUpserted(p) ==
    /\ run[p].pc = "upsert"
    /\ run[p].handler = "orders"
    /\ LET r == run[p]
           order == r.data[r.pos]
           data == OrderData(order)
           table == Upserted(zeltyOrder, order.id, data, OrderColumns, OrderDefaults)
       IN  IF OrderAccepted(order.id, data)
           THEN /\ zeltyOrder' = table
                /\ Proceeds(p,
                            IF Len(order.items) > 0
                            THEN [r EXCEPT !.pc = "item", !.itemPos = 1]
                            ELSE AfterRecord(r),
                            WithRow(written[p], order.id, table))
                /\ UNCHANGED <<zeltyRestaurant, zeltyDish, zeltyOrderItem>>
           ELSE Throws(p, obs[p], "orders", "PrismaError")
    /\ UNCHANGED <<remote, clientVars>>

\* (mutant) the loop over order.items is left after its first item
AfterItemFirstOnly(r) == AfterRecord(r)

\* the locals of an order run once item itemPos of order data[pos] is done with
AfterItem(r) ==
    IF r.itemPos < Len(r.data[r.pos].items)
    THEN [r EXCEPT !.itemPos = @ + 1]
    ELSE AfterRecord(r)

\* (mutant) the item upsert has no .catch: its rejection reaches the catch
\* block of the handler
ItemRejectedUncaught(p, r) == Throws(p, obs[p], "orders", "PrismaError")

\* the .catch of the item upsert logs the rejection, which goes no further:
\* the loop moves on from locals r
ItemRejected(p, r) ==
    /\ UNCHANGED zeltyOrderItem
    /\ Proceeds(p, AfterItem(r), written[p])

\* SyncOrdersHandler: the upsert of item itemPos of order data[pos] completes
\* or is rejected
ItemUpserted(p) ==
    /\ run[p].pc = "item"
    /\ LET r == run[p]
           order == r.data[r.pos]
           item == order.items[r.itemPos]
           data == ItemData(order, item)
           table == Upserted(zeltyOrderItem, item.id, data, ItemColumns, ItemDefaults)
       IN  IF ItemAccepted(data)
           THEN /\ zeltyOrderItem' = table
                /\ Proceeds(p, AfterItem(r), WithItem(written[p], item.id, table))
           ELSE ItemRejected(p, r)
    /\ UNCHANGED <<remote, zeltyRestaurant, zeltyDish, zeltyOrder, clientVars>>

\* the 5 second timer between two pages expires: the next GET is issued
Slept(p) ==
    /\ run[p].pc = "sleep"
    /\ run' = [run EXCEPT ![p].pc = "get"]
    /\ obs' = [obs EXCEPT ![p].stats[run[p].handler].requests = @ + 1]
    /\ \E a \in {"ok", "error"} : reply' = [reply EXCEPT ![p] = a]
    /\ UNCHANGED <<remote, tables, written, settled, clientVars>>

\* the remote provider replaces the content of its records
RemoteChange ==
    /\ Quiet
    /\ remote.rev = 1
    /\ remote' = [remote EXCEPT !.rev = 2]
    /\ settled' = "none"
    /\ UNCHANGED <<tables, run, reply, obs, written, clientVars>>

\* the remote provider deletes the last record of one of its listings
\* (followed while the dish and order listings fit in one short page)
RemoteDeletes ==
    /\ Quiet
    /\ remote.nd <= MaxShort
    /\ remote.no <= MaxShort
    /\ \E f \in {"nr", "nd", "no"} :
          /\ remote[f] >= 1
          /\ remote' = [remote EXCEPT ![f] = @ - 1]
    /\ settled' = "none"
    /\ UNCHANGED <<tables, run, reply, obs, written, clientVars>>

Next ==
    \/ Tick
    \/ RunSyncRestaurants
    \/ RunSyncDishes
    \/ RunSyncOrders
    \/ RemoteChange
    \/ RemoteDeletes
    \/ \E p \in Procs :
        \/ GetFails(p)
        \/ GetRestaurants(p)
        \/ RestaurantUpserted(p)
        \/ GetDishes(p)
        \/ DishUpserted(p)
        \/ GetOrders(p)
        \/ OrderUpserted(p)
        \/ ItemUpserted(p)
        \/ Slept(p)

Spec == Init /\ [][Next]_vars

\* ------------------------------------------------------- runs that go on
\* A step of the run of process p: a response or a failure of its GET, the
\* completion or rejection of an upsert, the expiry of its timer.
RunStep(p) ==
    \/ GetFails(p)
    \/ GetRestaurants(p)
    \/ RestaurantUpserted(p)
    \/ GetDishes(p)
    \/ DishUpserted(p)
    \/ GetOrders(p)
    \/ OrderUpserted(p)
    \/ ItemUpserted(p)
    \/ Slept(p)

\* The scheduled batches on their own, one tick after the other.
NextFair ==
    \/ Tick
    \/ RunStep("scheduler")

\* Every promise a run awaits settles: the remote API answers or fails each
\* GET, the store completes or rejects each upsert, the 5 second timer
\* expires, and the event loop then resumes the handler.
SpecFair == Init /\ [][NextFair]_vars /\ WF_vars(RunStep("scheduler"))

\* ------------------------------------------------- overlapping invocations
\* Nothing keeps an invocation from starting while others are in flight: the
\* cron job fires on schedule whether or not the batch of the tick before has
\* returned, and a command is a process of its own.

\* process p, idle, invokes handler h as the first handler of a new
\* invocation, whatever the other processes are doing (each process is
\* followed through one invocation)
StartsDuring(p, h) ==
    /\ run[p].pc = "idle"
    /\ obs[p].invoked = <<>>
    /\ run' = [run EXCEPT ![p] = Begin(h)]
    /\ obs' = [obs EXCEPT ![p] = Invoking([NoObs EXCEPT !.previous = Outcome(obs[p])], h)]
    /\ \E a \in {"ok", "error"} : reply' = [reply EXCEPT ![p] = a]
    /\ written' = [written EXCEPT ![p] = NoWrites]
    /\ settled' = "none"
    /\ UNCHANGED <<remote, tables, clientVars>>

\* the cron expression fires: a new batch starts, next to the batch of the
\* tick before when that one has not returned
TickDuring ==
    IF run["scheduler"].pc = "idle"
    THEN StartsDuring("scheduler", "restaurants")
    ELSE StartsDuring("scheduler2", "restaurants")

\* the operator runs a command, whatever the scheduler is doing
RunSyncRestaurantsDuring == StartsDuring("cli", "restaurants")
RunSyncDishesDuring == StartsDuring("cli", "dishes")
RunSyncOrdersDuring == StartsDuring("cli", "orders")

\* the rows a tick leaves in an empty store when it completes against the
\* listings of rem at revision 1
SyncedRestaurants(rem) ==
    [k \in 1..rem.nr |->
        Created(RestaurantData(RemoteRestaurant(k, 1)), RestaurantColumns, RestaurantDefaults)]
SyncedDishes(rem) ==
    [k \in 1..rem.nd |-> Created(DishData(RemoteDish(k, 1)), DishColumns, DishDefaults)]
SyncedOrders(rem) ==
    [k \in 1..rem.no |-> Created(OrderData(RemoteOrder(k, 1)), OrderColumns, OrderDefaults)]
SyncedItems(rem) ==
    LET order(i) == RemoteOrder((i - 1) \div MaxItems + 1, 1)
        item(i) == order(i).items[((i - 1) % MaxItems) + 1]
        ids == {i \in 1..(rem.no * MaxItems) :
                  /\ ((i - 1) % MaxItems) + 1 <= Len(order(i).items)
                  /\ ParseInt(item(i).item_id) \in 1..rem.nd}
    IN  [i \in ids |-> Created(ItemData(order(i), item(i)), ItemColumns, ItemDefaults)]

\* the listings that tick ran against; the remote may have dropped records
\* since
Earlier == [nr |-> MaxRestaurants, nd |-> MaxShort, no |-> MaxShort, rev |-> 1]

\* The runs that overlap start on listings of at most one short page, with
\* the store empty or as an earlier tick has left it: the database outlives
\* the process.
InitDuring ==
    /\ remote \in [nr : 0..MaxRestaurants, nd : 0..MaxShort, no : 0..MaxShort, rev : Revisions]
    /\ \/ /\ zeltyRestaurant = NoRows
          /\ zeltyDish = NoRows
          /\ zeltyOrder = NoRows
          /\ zeltyOrderItem = NoRows
       \/ /\ zeltyRestaurant = SyncedRestaurants(Earlier)
          /\ zeltyDish = SyncedDishes(Earlier)
          /\ zeltyOrder = SyncedOrders(Earlier)
          /\ zeltyOrderItem = SyncedItems(Earlier)
    /\ run = [p \in Procs |-> Idle]
    /\ reply = [p \in Procs |-> "none"]
    /\ obs = [p \in Procs |-> NoObs]
    /\ written = [p \in Procs |-> NoWrites]
    /\ settled = "none"
    /\ clock = [year |-> FirstYear, month |-> 1, day |-> 1]
    /\ utcOffset = 0
    /\ call = NoCall
    /\ request = NoRequest
    /\ clientLog = <<>>

NextDuring ==
    \/ TickDuring
    \/ RunSyncRestaurantsDuring
    \/ RunSyncDishesDuring
    \/ RunSyncOrdersDuring
    \/ RemoteChange
    \/ \E p \in Procs :
        \/ GetFails(p)
        \/ GetRestaurants(p)
        \/ RestaurantUpserted(p)
        \/ GetDishes(p)
        \/ DishUpserted(p)
        \/ GetOrders(p)
        \/ OrderUpserted(p)
        \/ ItemUpserted(p)

SpecDuring == InitDuring /\ [][NextDuring]_vars

\* ------------------------------------------- order-sync at the API client
\* The order handler seen at its requests only: the date bounds it computes,
\* the GET it issues for each page through the client of ZeltyService, and
\* what the client's response interceptor does when a GET fails.

\* the days the clock may show when order-sync is called
ClockDays ==
    {d \in [year : FirstYear..LastYear, month : 1..12, day : 1..31] :
        d.day \in {1, 15, DaysInMonth(d.year, d.month)}}

\* the offsets of local time the process may run under: west of Greenwich,
\* UTC, east of Greenwich
UtcOffsets == {-5, 0, 2}

\* what the operator may pass for a date of sync:orders: nothing, or a day
\* as YYYY-MM-DD
Arguments == {<<>>, Format([year |-> FirstYear, month |-> 3, day |-> 1])}

\* SyncOrdersCommandRunner.run: fromDate ? new Date(fromDate) : undefined
\* (the scheduled job passes no argument at all)
CommandDate(arg) == IF arg = <<>> THEN NoDate ELSE NewDate(arg, utcOffset)

\* the GET of the page at the offset of locals c, issued with the headers h
OrdersGet(c, h) ==
    [attempts |-> 1, offset |-> c.offset, from |-> Format(c.fromDate),
     to |-> Format(c.toDate), headers |-> h, received |-> NoError]

\* SyncOrdersHandler.execute({ fromDate, toDate }): the bounds default, each
\* from a reading of the clock of its own (midnight may pass between the
\* two), and the first page is requested.  One call is followed from each
\* day the clock may show.
ExecuteOrders ==
    /\ call.pc = "idle"
    /\ \E fromArg \in Arguments, toArg \in Arguments, h \in HeaderSets,
          later \in {clock, NextDay(clock)} :
          LET fromDate == CommandDate(fromArg)
              toDate == CommandDate(toArg)
              c == [pc |-> "get", fromArg |-> fromArg, toArg |-> toArg,
                    fromGiven |-> fromDate # NoDate, toGiven |-> toDate # NoDate,
                    fromRead |-> clock, toRead |-> later,
                    fromDate |-> IF fromDate # NoDate THEN fromDate
                                 ELSE DefaultFromDate(clock),
                    toDate |-> IF toDate # NoDate THEN toDate ELSE DefaultToDate(later),
                    offset |-> 0, thrown |-> NoError]
          IN  /\ call' = c
              /\ request' = OrdersGet(c, h)
              /\ clock' = later
    /\ clientLog' = <<>>
    /\ UNCHANGED utcOffset
    /\ UNCHANGED <<remote, tables, run, reply, obs, written, settled>>

\* a page arrives: after a full page the next one is requested, with the
\* same bounds; after any other the handler returns
OrdersPageArrives ==
    /\ call.pc = "get"
    /\ \E full \in BOOLEAN :
          IF full /\ call.offset < PAGE_LIMIT * MaxPages
          THEN LET c == [call EXCEPT !.offset = @ + PAGE_LIMIT]
               IN  call' = c /\ request' = OrdersGet(c, request.headers)
          ELSE call' = [call EXCEPT !.pc = "returned"] /\ UNCHANGED request
    /\ UNCHANGED <<clock, utcOffset, clientLog>>
    /\ UNCHANGED <<remote, tables, run, reply, obs, written, settled>>

\* (mutant) the interceptor sends the failed request once more before it
\* gives up
OnRejectedRetrying(error) ==
    /\ clientLog' = Append(clientLog, logAxiosError(error, request.headers))
    /\ IF request.attempts < 2
       THEN /\ request' = [request EXCEPT !.attempts = @ + 1]
            /\ UNCHANGED call
       ELSE /\ request' = [request EXCEPT !.received = error]
            /\ call' = [call EXCEPT !.pc = "threw", !.thrown = error]

\* the response interceptor of createClient on a failed request: it logs the
\* error and rejects with it; the handler's catch block rethrows it
OnRejected(error) ==
    /\ clientLog' = Append(clientLog, logAxiosError(error, request.headers))
    /\ request' = [request EXCEPT !.received = error]
    /\ call' = [call EXCEPT !.pc = "threw", !.thrown = error]

\* the GET fails: no response, or a status outside 2xx
OrdersGetFails ==
    /\ call.pc = "get"
    /\ \E error \in AxiosErrors : OnRejected(error)
    /\ UNCHANGED <<clock, utcOffset>>
    /\ UNCHANGED <<remote, tables, run, reply, obs, written, settled>>

InitClient ==
    /\ remote = [nr |-> 0, nd |-> 0, no |-> 0, rev |-> 1]
    /\ zeltyRestaurant = NoRows
    /\ zeltyDish = NoRows
    /\ zeltyOrder = NoRows
    /\ zeltyOrderItem = NoRows
    /\ run = [p \in Procs |-> Idle]
    /\ reply = [p \in Procs |-> "none"]
    /\ obs = [p \in Procs |-> NoObs]
    /\ written = [p \in Procs |-> NoWrites]
    /\ settled = "none"
    /\ clock \in ClockDays
    /\ utcOffset \in UtcOffsets
    /\ call = NoCall
    /\ request = NoRequest
    /\ clientLog = <<>>

NextClient ==
    \/ ExecuteOrders
    \/ OrdersPageArrives
    \/ OrdersGetFails

SpecClient == InitClient /\ [][NextClient]_vars

\* ================================================================= claims
TickOrder == <<"restaurants", "dishes", "orders">>

\* C1: in every tick the scheduler invokes restaurant-sync, then dish-sync,
\* then order-sync, and a synchronizer is running only when every one before
\* it in that order has returned without error.
C1_TickSequence ==
    LET o == obs["scheduler"]
        n == Len(o.invoked)
    IN  /\ n <= 3
        /\ o.invoked = SubSeq(TickOrder, 1, n)
        /\ \A i \in 1..3 : (o.stats[TickOrder[i]].result # "none") <=> (i <= n)
        /\ \A i \in 1..3 : i < n => o.stats[TickOrder[i]].result = "ok"
        /\ run["scheduler"].handler # "none" =>
              /\ n >= 1
              /\ run["scheduler"].handler = o.invoked[n]
              /\ o.stats[o.invoked[n]].result = "running"

\* the scheduler's order-sync is upserting, both earlier synchronizers done
C1_Witness ==
    /\ run["scheduler"].handler = "orders"
    /\ run["scheduler"].pc = "item"
    /\ obs["scheduler"].stats["dishes"].synced > 0

\* C2: when a synchronizer throws during a tick no later synchronizer of the
\* tick is invoked and the tick is over, and the 'completed' line is logged
\* only when all three synchronizers have returned without error.
C2_TickAbandoned ==
    LET o == obs["scheduler"]
    IN  /\ \A i \in 1..3 :
              o.stats[TickOrder[i]].result = "error" =>
                 /\ run["scheduler"] = Idle
                 /\ ~o.completed
                 /\ \A j \in 1..3 : j > i => o.stats[TickOrder[j]].result = "none"
        /\ o.completed => \A h \in Handlers : o.stats[h].result = "ok"
        /\ (\A h \in Handlers : o.stats[h].result = "ok") => o.completed

\* dish-sync threw in a tick: order-sync was not invoked
C2_Witness ==
    /\ obs["scheduler"].stats["restaurants"].result = "ok"
    /\ obs["scheduler"].stats["dishes"].result = "error"
    /\ obs["scheduler"].invoked = <<"restaurants", "dishes">>

\* the scheduler goes from idle to running in this step
TickFires == run["scheduler"].pc = "idle" /\ run'["scheduler"].pc # "idle"

\* C3: a tick that threw leaves the scheduler idle with the next tick free to
\* fire, and the tick that follows it starts restaurant-sync from scratch:
\* offset 0, total 0, one request, nothing carried over from the failed tick.
C3_TicksIndependent ==
    /\ [](obs["scheduler"].error # "none" => run["scheduler"] = Idle /\ ENABLED Tick)
    /\ [][TickFires =>
            /\ run'["scheduler"] = Begin("restaurants")
            /\ obs'["scheduler"].invoked = <<"restaurants">>
            /\ obs'["scheduler"].error = "none"
            /\ ~obs'["scheduler"].completed
            /\ obs'["scheduler"].stats["restaurants"] = FirstRequest
            /\ \A h \in {"dishes", "orders"} : obs'["scheduler"].stats[h] = NoStats
            /\ written'["scheduler"] = NoWrites]_vars

\* the tick after a failed tick has gone through restaurant-sync
C3_Witness ==
    /\ obs["scheduler"].previous = "error"
    /\ run["scheduler"].handler = "dishes"

Paged == {"dishes", "orders"}

\* C4: a dish or order run that received k pages of exactly PAGE_LIMIT
\* records and then a page of at least one and fewer than PAGE_LIMIT records
\* has issued exactly k+1 requests, and the total of its 'Successfully synced'
\* line is the sum of the lengths of the pages it received.
C4_ShortPageEndsRun ==
    \A p \in Procs : \A h \in Paged :
        LET st == obs[p].stats[h]
        IN  (st.result = "ok" /\ st.shortLen > 0 /\ st.shortLen < PAGE_LIMIT) =>
                /\ st.requests = st.fullPages + 1
                /\ st.synced = st.fetched
                /\ st.fetched = st.fullPages * PAGE_LIMIT + st.shortLen

\* an order run has completed over full pages followed by a short page
C4_Witness ==
    \E p \in Procs :
        LET st == obs[p].stats["orders"]
        IN  st.result = "ok" /\ st.fullPages = MaxPages /\ st.shortLen > 0
            /\ st.shortLen < PAGE_LIMIT

Ids == <<DOMAIN zeltyRestaurant, DOMAIN zeltyDish, DOMAIN zeltyOrder, DOMAIN zeltyOrderItem>>

\* process p takes a step of a run of handler h
Steps(p, h) == run[p].handler = h /\ run'[p] # run[p]

\* C5: once a synchronizer has completed without error, a run of the same
\* synchronizer that comes next, with the remote data unchanged, creates no
\* row: no step of it changes the set of remote ids (hence the row count) of
\* any table.
C5_SecondRunCreatesNothing ==
    [][\A h \in Handlers : \A p \in Procs :
          (settled = h /\ Steps(p, h)) => Ids' = Ids]_vars

\* a second order run in succession has gone through an order and its items
C5_Witness ==
    \E p \in Procs :
        /\ settled = "orders"
        /\ run[p].handler = "orders"
        /\ DOMAIN written[p].rows # {}
        /\ DOMAIN written[p].items # {}

\* the item that process p is waiting on, and whether the store takes it
CurrentOrder(p) == run[p].data[run[p].pos]
CurrentItem(p) == CurrentOrder(p).items[run[p].itemPos]
ItemFails(p) ==
    /\ run[p].pc = "item"
    /\ ~ItemAccepted(ItemData(CurrentOrder(p), CurrentItem(p)))

\* C6: when the upsert of an order item throws, the row of its order stays
\* stored, the run goes on to the next item of the order, else to the next
\* order of the page, else past the end of the page (the pause before the
\* next page, or the successful end of the run), and no error is raised.
C6_ItemIsolation ==
    [][\A p \in Procs :
          (ItemFails(p) /\ run'[p] # run[p]) =>
             LET r == run[p]
                 more == r.itemPos < Len(CurrentOrder(p).items)
                 last == r.pos = Len(r.data)
             IN  /\ CurrentOrder(p).id \in DOMAIN zeltyOrder'
                 /\ zeltyOrder' = zeltyOrder
                 /\ obs'[p].error = "none"
                 /\ obs'[p].stats["orders"].result \in {"running", "ok"}
                 /\ more => /\ run'[p].pc = "item"
                            /\ run'[p].pos = r.pos
                            /\ run'[p].itemPos = r.itemPos + 1
                 /\ (~more /\ ~last) => /\ run'[p].pc = "upsert"
                                        /\ run'[p].handler = "orders"
                                        /\ run'[p].pos = r.pos + 1
                 /\ (~more /\ last /\ Len(r.data) = PAGE_LIMIT) =>
                        /\ run'[p].pc = "sleep"
                        /\ run'[p].offset = r.offset + PAGE_LIMIT
                 /\ (~more /\ last /\ Len(r.data) < PAGE_LIMIT) =>
                        /\ obs'[p].stats["orders"].result = "ok"
                        /\ obs'[p].stats["orders"].synced = r.totalSynced + Len(r.data)]_vars

\* an order run has completed although the first item of order 1 was
\* rejected; the order and its second item are stored
C6_Witness ==
    \E p \in Procs :
        /\ obs[p].stats["orders"].result = "ok"
        /\ 1 \in DOMAIN written[p].rows
        /\ 1 \notin DOMAIN zeltyOrderItem
        /\ 2 \in DOMAIN written[p].items

\* the GET that process p is waiting on fails
FetchFails(p) == run[p].pc = "get" /\ reply[p] = "error"

\* the store rejects the restaurant, dish or order that process p is waiting on
HeaderFails(p) ==
    /\ run[p].pc = "upsert"
    /\ LET record == run[p].data[run[p].pos]
       IN  CASE run[p].handler = "restaurants" -> ~RestaurantAccepted(RestaurantData(record))
             [] run[p].handler = "dishes" -> ~DishAccepted(DishData(record))
             [] run[p].handler = "orders" -> ~OrderAccepted(record.id, OrderData(record))

\* C7: a failed page fetch and a rejected restaurant, dish or order upsert end
\* the run in that very step: the handler is left (no later record is
\* upserted, no further page requested), nothing is written, no 'Successfully
\* synced' line is logged, and the error itself reaches the caller, which
\* stops as well.
C7_FailureAborts ==
    [][\A p \in Procs :
          ((FetchFails(p) \/ HeaderFails(p)) /\ run'[p] # run[p]) =>
             LET h == run[p].handler
             IN  /\ run'[p] = Idle
                 /\ tables' = tables
                 /\ obs'[p].stats[h].result = "error"
                 /\ obs'[p].stats[h].synced = -1
                 /\ obs'[p].stats[h].requests = obs[p].stats[h].requests
                 /\ obs'[p].invoked = obs[p].invoked
                 /\ obs'[p].error = IF FetchFails(p) THEN "AxiosError" ELSE "PrismaError"]_vars

\* an order run over several pages was aborted by the rejection of order 2:
\* order 1 is stored, order 3 of the same page is not
C7_Witness ==
    \E p \in Procs :
        /\ obs[p].stats["orders"].result = "error"
        /\ obs[p].error = "PrismaError"
        /\ remote.no > PAGE_LIMIT
        /\ DOMAIN written[p].rows = {1}
        /\ 3 \notin DOMAIN zeltyOrder

\* the table handler h upserts its records into
OwnTable(h) ==
    CASE h = "restaurants" -> zeltyRestaurant
      [] h = "dishes" -> zeltyDish
      [] h = "orders" -> zeltyOrder

\* C8: after a run has aborted with an error, every row it had upserted is in
\* the store with the value that run wrote.
C8_NoRollback ==
    \A p \in Procs : \A h \in Handlers :
        obs[p].stats[h].result = "error" =>
            /\ \A id \in DOMAIN written[p].rows :
                   id \in DOMAIN OwnTable(h) /\ OwnTable(h)[id] = written[p].rows[id]
            /\ \A id \in DOMAIN written[p].items :
                   id \in DOMAIN zeltyOrderItem /\ zeltyOrderItem[id] = written[p].items[id]

\* a dish run was aborted after it had written at least one full page
C8_Witness ==
    \E p \in Procs :
        /\ obs[p].stats["dishes"].result = "error"
        /\ Cardinality(DOMAIN written[p].rows) >= PAGE_LIMIT

\* C9: every dish row and every order row references a restaurant that has a
\* row, and every order-item row references an order and a dish that have
\* rows.
C9_References ==
    /\ \A d \in DOMAIN zeltyDish : zeltyDish[d].zeltyRestaurantId \in DOMAIN zeltyRestaurant
    /\ \A k \in DOMAIN zeltyOrder : zeltyOrder[k].zeltyRestaurantId \in DOMAIN zeltyRestaurant
    /\ \A i \in DOMAIN zeltyOrderItem :
          /\ zeltyOrderItem[i].zeltyOrderId \in DOMAIN zeltyOrder
          /\ zeltyOrderItem[i].zeltyDishId \in DOMAIN zeltyDish

\* a dish run was aborted by a dish whose restaurant has no row, and an order
\* run left out an item whose dish has no row; the rows that are stored have
\* their references
C9_Witness ==
    /\ DOMAIN zeltyDish = {1}
    /\ remote.nd >= 2
    /\ DOMAIN zeltyOrder # {}
    /\ DOMAIN zeltyOrderItem = {2}

\* C10 (as claimed): every accepted upsert of a record whose remote id already
\* has a row leaves that row equal, field by field, to the values mapped from
\* the fetched record, a field the record leaves absent taking its default.
C10_FullReplace ==
    [][\A p \in Procs :
          /\ (run[p].pc = "upsert" /\ ~HeaderFails(p) /\ run'[p] # run[p]) =>
                LET record == run[p].data[run[p].pos]
                    id == record.id
                IN  CASE run[p].handler = "restaurants" ->
                           id \in DOMAIN zeltyRestaurant =>
                              zeltyRestaurant'[id] =
                                 Created(RestaurantData(record), RestaurantColumns,
                                         RestaurantDefaults)
                      [] run[p].handler = "dishes" ->
                           id \in DOMAIN zeltyDish =>
                              zeltyDish'[id] =
                                 Created(DishData(record), DishColumns, DishDefaults)
                      [] run[p].handler = "orders" ->
                           id \in DOMAIN zeltyOrder =>
                              zeltyOrder'[id] =
                                 Created(OrderData(record), OrderColumns, OrderDefaults)
          /\ (run[p].pc = "item" /\ ~ItemFails(p) /\ run'[p] # run[p]) =>
                (CurrentItem(p).id \in DOMAIN zeltyOrderItem =>
                    zeltyOrderItem'[CurrentItem(p).id] =
                       Created(ItemData(CurrentOrder(p), CurrentItem(p)), ItemColumns,
                               ItemDefaults))]_vars

\* the defaults the documentation gives for optional fields a record leaves
\* absent: flags are false, lists are empty
DocumentedDefault ==
    [disable |-> "false", tags |-> EmptyList, closures |-> EmptyList,
     modifiers |-> EmptyList]

\* the row of the record that process p is upserting, after the step, has the
\* documented default in every field the record leaves absent
DefaultsStored(record, row) ==
    \A f \in DOMAIN DocumentedDefault \cap DOMAIN record :
        record[f] = Absent => row[f] = DocumentedDefault[f]

\* C11 (as claimed): after every accepted upsert of a restaurant, dish, order
\* or order item, on create and on update alike, each optional field the
\* fetched record leaves absent is stored with its documented default
\* (disable = false, tags = empty list).
C11_AbsentTakesDefault ==
    [][\A p \in Procs :
          /\ (run[p].pc = "upsert" /\ ~HeaderFails(p) /\ run'[p] # run[p]) =>
                LET record == run[p].data[run[p].pos]
                IN  CASE run[p].handler = "restaurants" ->
                           DefaultsStored(record, zeltyRestaurant'[record.id])
                      [] run[p].handler = "dishes" ->
                           DefaultsStored(record, zeltyDish'[record.id])
                      [] run[p].handler = "orders" ->
                           DefaultsStored(record, zeltyOrder'[record.id])
          /\ (run[p].pc = "item" /\ ~ItemFails(p) /\ run'[p] # run[p]) =>
                DefaultsStored(CurrentItem(p), zeltyOrderItem'[CurrentItem(p).id])]_vars

\* C18: a dish or order run that has returned has ended on the first page
\* that was empty or shorter than PAGE_LIMIT, one request after its last full
\* page; no request follows a page that was not full; a run whose pages were
\* k full pages and then an empty one (k >= 0) reports a total of
\* PAGE_LIMIT * k, and 0 with one request when the first page is empty.
C18_FullPagesThenEmpty ==
    \A p \in Procs : \A h \in Paged :
        LET st == obs[p].stats[h]
        IN  /\ st.result = "ok" => st.shortLen \in 0..(PAGE_LIMIT - 1)
            /\ st.shortLen # -1 => st.requests = st.fullPages + 1
            /\ (st.result = "ok" /\ st.shortLen = 0) =>
                  /\ st.synced = PAGE_LIMIT * st.fullPages
                  /\ st.fetched = st.synced
                  /\ st.fullPages = 0 => (st.requests = 1 /\ st.synced = 0)

\* a dish run has completed over full pages followed by an empty page
C18_Witness ==
    \E p \in Procs :
        LET st == obs[p].stats["dishes"]
        IN  st.result = "ok" /\ st.fullPages = MaxPages /\ st.shortLen = 0
            /\ st.requests = MaxPages + 1

\* C19: in a dish or order run the n-th request asks for offset
\* PAGE_LIMIT * (n - 1), so offsets go up by PAGE_LIMIT and none is asked
\* twice; a request is in flight only while the run waits for it, and when
\* the run asks for (or is about to ask for) the page at an offset, every
\* record before that offset has been upserted by the run.
C19_PagesInOrder ==
    \A p \in Procs :
        /\ (reply[p] # "none") <=> (run[p].pc = "get")
        /\ run[p].handler \in Paged =>
              LET st == obs[p].stats[run[p].handler]
                  r == run[p]
              IN  /\ r.pc \in {"get", "upsert", "item"} =>
                         r.offset = PAGE_LIMIT * (st.requests - 1)
                  /\ r.pc = "sleep" => r.offset = PAGE_LIMIT * st.requests
                  /\ r.pc \in {"get", "sleep"} => DOMAIN written[p].rows = 1..r.offset

\* an order run waits for its last page, the pages before it upserted
C19_Witness ==
    \E p \in Procs :
        /\ run[p].handler = "orders"
        /\ run[p].pc = "get"
        /\ run[p].offset = PAGE_LIMIT * MaxPages
        /\ Cardinality(DOMAIN written[p].rows) = PAGE_LIMIT * MaxPages

\* process p is waiting on the last record (or the last item of the last
\* record) of a full page
LastOfFullPage(p) ==
    /\ run[p].pc \in {"upsert", "item"}
    /\ Len(run[p].data) = PAGE_LIMIT
    /\ run[p].pos = PAGE_LIMIT
    /\ \/ run[p].pc = "item" /\ run[p].itemPos = Len(CurrentOrder(p).items)
       \/ run[p].pc = "upsert" /\ run[p].handler = "dishes"
       \/ run[p].pc = "upsert" /\ run[p].handler = "orders"
          /\ Len(CurrentOrder(p).items) = 0

\* C20: in a dish or order run the first request is issued at once; every
\* later request is issued by the expiry of the pause and by nothing else;
\* the pause starts when the last record of a full page is done with and at
\* no other moment, and a run never ends in a pause.
C20_PauseBetweenPages ==
    [][\A p \in Procs : \A h \in Paged :
          LET st == obs[p].stats[h]
          IN  /\ (run[p].handler # h /\ run'[p].handler = h) =>
                    (run'[p].pc = "get" /\ obs'[p].stats[h].requests = 1)
              /\ (run[p].handler = h /\ run'[p].handler = h
                  /\ obs'[p].stats[h].requests # st.requests) =>
                    /\ run[p].pc = "sleep"
                    /\ run'[p].pc = "get"
                    /\ obs'[p].stats[h].requests = st.requests + 1
              /\ (run[p].handler = h /\ LastOfFullPage(p) /\ ~HeaderFails(p)
                  /\ run'[p] # run[p]) => run'[p].pc = "sleep"
              /\ (run[p].pc # "sleep" /\ run'[p].pc = "sleep" /\ run'[p].handler = h) =>
                    (run[p].handler = h /\ LastOfFullPage(p))
              /\ (run[p].handler = h /\ run[p].pc = "sleep" /\ run'[p] # run[p]) =>
                    (run'[p].handler = h /\ run'[p].pc = "get")]_vars

\* an order run is upserting the records of its second page, one pause
\* behind it
C20_Witness ==
    \E p \in Procs :
        /\ run[p].handler = "orders"
        /\ run[p].pc = "upsert"
        /\ run[p].offset = PAGE_LIMIT
        /\ obs[p].stats["orders"].requests = 2

\* the listing of each table's records the remote holds, in the order of tables
Listed == <<1..remote.nr, 1..remote.nd, 1..remote.no>>

\* C15: no step removes a row: the set of remote ids of each table only
\* grows; and a row whose record is no longer in the remote listing is left
\* as it is by every step (for an order item: the items of an order that is
\* no longer listed).
C15_NeverDeletes ==
    [][/\ \A i \in 1..4 : Ids[i] \subseteq Ids'[i]
       /\ \A id \in DOMAIN zeltyRestaurant :
             id \notin Listed[1] => zeltyRestaurant'[id] = zeltyRestaurant[id]
       /\ \A id \in DOMAIN zeltyDish :
             id \notin Listed[2] => zeltyDish'[id] = zeltyDish[id]
       /\ \A id \in DOMAIN zeltyOrder :
             id \notin Listed[3] => zeltyOrder'[id] = zeltyOrder[id]
       /\ \A id \in DOMAIN zeltyOrderItem :
             zeltyOrderItem[id].zeltyOrderId \notin Listed[3] =>
                zeltyOrderItem'[id] = zeltyOrderItem[id]]_vars

\* a dish run completed on changed remote data after the remote dropped dish
\* 2: the row of dish 2 is stored with the old content, the row of dish 1
\* with the new one
C15_Witness ==
    \E p \in Procs :
        /\ remote.nd = 1
        /\ remote.rev = 2
        /\ obs[p].stats["dishes"].result = "ok"
        /\ DOMAIN written[p].rows = {1}
        /\ 2 \in DOMAIN zeltyDish
        /\ zeltyDish[2].name = Content(1)
        /\ zeltyDish[1].name = Content(2)

\* C13 (as claimed): two invocations are in flight together only when one is
\* the batch of a tick and the other a command: the batches of two ticks are
\* never in flight together.
C13_TicksNeverOverlap ==
    \A p, q \in Procs :
        (p # q /\ run[p].pc # "idle" /\ run[q].pc # "idle") =>
            (p \notin Batches \/ q \notin Batches)

\* the zeltyId of the row kept under row key k
RowId(k) == k % 1000

\* C14: whatever the interleaving of the batches and the commands, each of
\* the four tables holds at most one row per remote id, and no two order rows
\* have the same remote UUID.
C14_OneRowPerRemoteId ==
    /\ \A i \in 1..4 : \A j, k \in Ids[i] : RowId(j) = RowId(k) => j = k
    /\ \A j, k \in DOMAIN zeltyOrder :
          zeltyOrder[j].zeltyUuid = zeltyOrder[k].zeltyUuid => j = k

\* a batch and an order command are in flight together, both on their second
\* order, and the rows of orders 1 and 2 are stored
C14_Witness ==
    /\ run["scheduler"].handler = "orders"
    /\ run["cli"].handler = "orders"
    /\ run["scheduler"].pos = 2
    /\ run["cli"].pos = 2
    /\ DOMAIN zeltyOrder = {1, 2}

\* C12: when order-sync is called without a date argument, fromDate is the
\* last day of the month before the one the clock shows (the day whose
\* morrow is the first of the clock's month) and toDate the last day of the
\* clock's month, each for the reading of the clock it is computed from, and
\* every request of the run carries them as yyyy-MM-dd; with the clock at
\* 2025-03-15 the requests carry from=2025-02-28 and to=2025-03-31.
C12_DefaultDateRange ==
    call.pc # "idle" =>
        /\ ~call.fromGiven =>
              /\ NextDay(call.fromDate) =
                    [year |-> call.fromRead.year, month |-> call.fromRead.month, day |-> 1]
              /\ request.from = Format(call.fromDate)
        /\ ~call.toGiven =>
              /\ call.toDate.year = call.toRead.year
              /\ call.toDate.month = call.toRead.month
              /\ NextDay(call.toDate).day = 1
              /\ request.to = Format(call.toDate)
        /\ (/\ ~call.fromGiven
            /\ ~call.toGiven
            /\ call.fromRead = [year |-> 2025, month |-> 3, day |-> 15]
            /\ call.toRead = [year |-> 2025, month |-> 3, day |-> 15]) =>
              /\ request.from = <<"2", "0", "2", "5", "-", "0", "2", "-", "2", "8">>
              /\ request.to = <<"2", "0", "2", "5", "-", "0", "3", "-", "3", "1">>

\* order-sync, called without dates on 2025-03-15, has requested its second
\* page
C12_Witness ==
    /\ call.pc = "get"
    /\ ~call.fromGiven
    /\ ~call.toGiven
    /\ call.fromRead = [year |-> 2025, month |-> 3, day |-> 15]
    /\ call.toRead = [year |-> 2025, month |-> 3, day |-> 15]
    /\ request.offset = PAGE_LIMIT

\* C16: a request that fails is logged by the client exactly once and the
\* caller gets the very error the client received; the client sends a request
\* once only, and logs nothing for a request that has not failed.
C16_LoggedOnceRejectedUnchanged ==
    /\ request.attempts <= 1
    /\ call.pc = "threw" =>
          /\ Len(clientLog) = 1
          /\ request.received \in AxiosErrors
          /\ call.thrown = request.received
          /\ clientLog[1].code = request.received.code
          /\ clientLog[1].status = request.received.status
    /\ call.pc # "threw" => clientLog = <<>>

\* the request of the second page failed with status 500
C16_Witness ==
    /\ call.pc = "threw"
    /\ call.thrown.status = 500
    /\ request.offset = PAGE_LIMIT
    /\ request.attempts = 1

\* key is word up to the case of its letters
SameLetters(key, word) ==
    /\ Len(key) = Len(word)
    /\ \A i \in 1..Len(key) :
          \/ key[i] = word[i]
          \/ \E j \in 1..26 : LowerCase[j] = word[i] /\ UpperCase[j] = key[i]

Sensitive(key) == \E word \in sensitiveKeys : SameLetters(key, word)

\* C17: the request headers of every log entry have the names of the
\* request's headers; the value of each header named authorization, cookie
\* or x-api-key in any case is '[REDACTED]', every other header has the value
\* the request has, and no logged value is the bearer credential; the
\* headers of the request are the same after the failure as before.
C17_HeadersRedacted ==
    /\ [](\A i \in 1..Len(clientLog) :
            LET logged == clientLog[i].requestHeaders
                sent == request.headers
            IN  /\ logged.present = sent.present
                /\ DOMAIN logged.fields = DOMAIN sent.fields
                /\ \A key \in DOMAIN logged.fields :
                      /\ Sensitive(key) => logged.fields[key] = Redacted
                      /\ ~Sensitive(key) => logged.fields[key] = sent.fields[key]
                      /\ logged.fields[key] # Credential)
    /\ [][call.pc # "idle" => request'.headers = request.headers]_vars

\* a failed request that carried the credential, a cookie, an API key and two
\* harmless headers has been logged
C17_Witness ==
    /\ Len(clientLog) = 1
    /\ request.headers.present
    /\ Cardinality(DOMAIN request.headers.fields) = Cardinality(OtherHeaders) + 1
    /\ request.headers.fields[AuthorizationHeader] = Credential

\* C21: in an order run the items of an order are upserted only after that
\* order's own upsert has succeeded and before the next order of the page is
\* upserted: the run waits on an item only with the order of that item
\* written by this run, it enters the items of an order in the step that
\* upserts that order, it leaves them only after the last one, and an item
\* row changes only as the item the run is waiting on; when the store
\* rejects an order the run stops in that step and none of its items is sent.
C21_ItemsFollowTheirOrder ==
    /\ [](\A p \in Procs : run[p].pc = "item" =>
             /\ run[p].handler = "orders"
             /\ run[p].itemPos \in 1..Len(CurrentOrder(p).items)
             /\ CurrentOrder(p).id \in DOMAIN written[p].rows
             /\ CurrentOrder(p).id \in DOMAIN zeltyOrder
             /\ \A i \in DOMAIN written[p].items :
                   written[p].items[i].zeltyOrderId \in DOMAIN written[p].rows)
    /\ [][\A p \in Procs :
            LET r == run[p]
                moved == run'[p] # r
                order == r.handler = "orders" /\ r.pc = "upsert"
            IN  /\ (run'[p].pc = "item" /\ r.pc # "item") =>
                      /\ order /\ ~HeaderFails(p)
                      /\ run'[p].data = r.data /\ run'[p].pos = r.pos
                      /\ run'[p].itemPos = 1
                      /\ CurrentOrder(p).id \in DOMAIN zeltyOrder'
                /\ (order /\ moved /\ ~HeaderFails(p) /\ Len(CurrentOrder(p).items) > 0) =>
                      run'[p].pc = "item"
                /\ (r.pc = "item" /\ moved /\ r.itemPos < Len(CurrentOrder(p).items)) =>
                      /\ run'[p].pc = "item"
                      /\ run'[p].data = r.data /\ run'[p].pos = r.pos
                      /\ run'[p].itemPos = r.itemPos + 1
                /\ (order /\ moved /\ HeaderFails(p)) =>
                      /\ run'[p].pc = "idle"
                      /\ obs'[p].error # "none"
                      /\ zeltyOrderItem' = zeltyOrderItem
                      /\ written'[p].items = written[p].items
          ]_vars
    /\ [][zeltyOrderItem' # zeltyOrderItem =>
            \E p \in Procs :
                /\ run[p].pc = "item"
                /\ \A i \in DOMAIN zeltyOrderItem' :
                      (i \notin DOMAIN zeltyOrderItem \/ zeltyOrderItem'[i] # zeltyOrderItem[i]) =>
                          /\ i = CurrentItem(p).id
                          /\ zeltyOrderItem'[i].zeltyOrderId = CurrentOrder(p).id
          ]_vars

\* an order run has upserted order 1 and its first item and waits on the
\* second item of that order
C21_Witness ==
    \E p \in Procs :
        /\ run[p].pc = "item"
        /\ run[p].pos = 1
        /\ run[p].itemPos = 2
        /\ DOMAIN written[p].items # {}

\* C22: each synchronizer writes only the tables it owns: a step of a
\* restaurant run leaves the dish, order and order-item rows as they are, a
\* step of a dish run the restaurant, order and order-item rows, a step of an
\* order run the restaurant and dish rows; and a step that is no step of a
\* run changes no table.
C22_OwnTablesOnly ==
    [][/\ \A p \in Procs :
            /\ Steps(p, "restaurants") =>
                  UNCHANGED <<zeltyDish, zeltyOrder, zeltyOrderItem>>
            /\ Steps(p, "dishes") =>
                  UNCHANGED <<zeltyRestaurant, zeltyOrder, zeltyOrderItem>>
            /\ Steps(p, "orders") =>
                  UNCHANGED <<zeltyRestaurant, zeltyDish>>
       /\ (\A p \in Procs : run[p].handler = "none" \/ run'[p] = run[p]) =>
             UNCHANGED tables]_vars

\* a tick is in its order run: each of the four tables holds rows, the
\* order and item rows written by this run
C22_Witness ==
    /\ run["scheduler"].handler = "orders"
    /\ DOMAIN written["scheduler"].rows # {}
    /\ DOMAIN written["scheduler"].items # {}
    /\ DOMAIN zeltyRestaurant # {}
    /\ DOMAIN zeltyDish # {}

\* process p enters a run of handler h: as the first handler of an
\* invocation, or as the handler that follows one that has returned
Enters(p, h) ==
    /\ run'[p].handler = h
    /\ run[p].handler # h

\* C23: every synchronizer run is a fresh pass: whatever the earlier runs
\* did, a run starts by requesting the page at offset 0 with a synced total
\* of 0, no page in hand, no statistics and no written row carried over; the
\* first page a paged run receives is the page at offset 0, and every
\* request of the run is made at the offset that counts the full pages
\* this run has received.
C23_FreshPass ==
    /\ [][\A p \in Procs : \A h \in Handlers :
            Enters(p, h) =>
               /\ run'[p].pc = "get"
               /\ run'[p].offset = 0
               /\ run'[p].totalSynced = 0
               /\ run'[p].data = <<>>
               /\ run'[p].pos = 0
               /\ obs'[p].stats[h].requests = 1
               /\ obs'[p].stats[h].fetched = 0
               /\ obs'[p].stats[h].fullPages = 0
               /\ written'[p] = NoWrites]_vars
    /\ [](\A p \in Procs :
            (run[p].handler \in Paged /\ run[p].pc \in {"get", "upsert", "item"}) =>
               LET st == obs[p].stats[run[p].handler]
               IN  /\ st.requests = run[p].offset \div PAGE_LIMIT + 1
                   /\ run[p].pc = "get" => run[p].offset = st.fullPages * PAGE_LIMIT
                   /\ run[p].pc # "get" =>
                        /\ run[p].data[1].id = run[p].offset + 1
                        /\ st.fetched = run[p].offset + Len(run[p].data))

\* a dish run that follows an invocation which threw is on the first record
\* of the page at offset 0, with more than a page of dish rows stored by
\* the runs before it
C23_Witness ==
    \E p \in Procs :
        /\ obs[p].previous = "error"
        /\ run[p].handler = "dishes"
        /\ run[p].pc = "upsert"
        /\ run[p].offset = 0
        /\ run[p].pos = 1
        /\ DOMAIN written[p].rows = {}
        /\ Cardinality(DOMAIN zeltyDish) > PAGE_LIMIT

\* C24: the on-demand order sync applies each date bound independently: a
\* date the operator supplies is the date every page request of the run
\* carries for that bound, whatever was supplied for the other bound, and a
\* bound that is not supplied takes its default (the last day of the month
\* before the clock's month for fromDate, the last day of the clock's month
\* for toDate); the bounds do not change from one page request to the next.
C24_BoundsAppliedIndependently ==
    /\ [](call.pc # "idle" =>
            /\ call.fromArg # <<>> => request.from = call.fromArg
            /\ call.toArg # <<>> => request.to = call.toArg
            /\ call.fromArg = <<>> => request.from = Format(DefaultFromDate(call.fromRead))
            /\ call.toArg = <<>> => request.to = Format(DefaultToDate(call.toRead)))
    /\ [][(call.pc # "idle" /\ call'.pc # "idle") =>
             /\ request'.from = request.from
             /\ request'.to = request.to]_vars

\* the number of records of the listing handler h pages through
RemoteCount(h) == IF h = "dishes" THEN remote.nd ELSE remote.no

\* C25: every dish and order run terminates: a process that is in a dish or
\* order run leaves it, by its 'Successfully synced' completion or by an
\* error; and against a remote that holds N records throughout the run it
\* has issued at most floor(N/100)+1 page requests.
C25_RunsTerminate ==
    /\ \A p \in Procs : \A h \in Paged :
          (run[p].handler = h) ~>
              (run[p].handler # h /\ obs[p].stats[h].result \in {"ok", "error"})
    /\ [](\A p \in Procs : \A h \in Paged :
            run[p].handler = h =>
               obs[p].stats[h].requests <= RemoteCount(h) \div PAGE_LIMIT + 1)
    /\ [](\A p \in Procs : \A h \in Paged :
            obs[p].stats[h].result = "ok" =>
               obs[p].stats[h].requests = obs[p].stats[h].fetched \div PAGE_LIMIT + 1)

\* an order run has completed after its third request, against a remote
\* that lists two full pages of orders
C25_Witness ==
    \E p \in Procs :
        /\ obs[p].stats["orders"].result = "ok"
        /\ obs[p].stats["orders"].requests = MaxPages + 1
        /\ remote.no = MaxPages * PAGE_LIMIT

\* C26: in a dish or order run (the remote listing does not change while it
\* runs) every record of the listing is upserted exactly once and has a row
\* afterwards: the record the run sends to the store is the first one it has
\* not written yet, the records it has written are exactly those before it
\* (none skipped, none twice), each accepted upsert adds that one record to
\* them; and when the run has completed without error they are all the
\* records the remote lists, each with a row, their number being the total
\* of the 'Successfully synced' line.  (Records are the dishes and orders of
\* the paged listings; the items nested in an order follow C6.)
C26_EachRecordOnce ==
    /\ [](\A p \in Procs : \A h \in Paged :
            run[p].handler = h =>
               LET r == run[p]
                   done == DOMAIN written[p].rows
               IN  /\ done \subseteq DOMAIN OwnTable(h)
                   /\ r.pc = "upsert" =>
                         /\ r.data[r.pos].id = r.offset + r.pos
                         /\ done = 1..(r.offset + r.pos - 1)
                   /\ r.pc = "item" => done = 1..(r.offset + r.pos)
                   /\ r.pc \in {"get", "sleep"} => done = 1..r.offset)
    /\ [][\A p \in Procs :
            (run[p].handler \in Paged /\ run[p].pc = "upsert" /\ run'[p] # run[p]
                /\ ~HeaderFails(p)) =>
               LET id == run[p].data[run[p].pos].id
               IN  /\ id \notin DOMAIN written[p].rows
                   /\ id \in DOMAIN (IF run[p].handler = "dishes" THEN zeltyDish' ELSE zeltyOrder')
                   /\ (run'[p].handler = run[p].handler \/ p \notin Batches) =>
                         DOMAIN written'[p].rows = DOMAIN written[p].rows \cup {id}]_vars
    /\ [](\A p \in Procs : \A h \in Paged :
            (Quiet /\ settled = h /\ obs[p].stats[h].result = "ok") =>
               /\ DOMAIN written[p].rows = 1..RemoteCount(h)
               /\ 1..RemoteCount(h) \subseteq DOMAIN OwnTable(h)
               /\ obs[p].stats[h].synced = RemoteCount(h))

\* an order run over two full pages and a short page has completed without
\* error
C26_Witness ==
    \E p \in Procs :
        /\ Quiet
        /\ settled = "orders"
        /\ obs[p].stats["orders"].result = "ok"
        /\ remote.no > MaxPages * PAGE_LIMIT
        /\ Cardinality(DOMAIN written[p].rows) = remote.no

Overlap(p, q) ==
    /\ p # q
    /\ (p \in Batches) # (q \in Batches)
    /\ run[p].handler # "none"
    /\ run[q].handler = run[p].handler

\* the record process p is waiting on meets the constraints of its table in
\* the store without the rows that the run of q has written
AcceptedWithout(p, q) ==
    LET record == run[p].data[run[p].pos]
        others == DOMAIN zeltyOrder \ (DOMAIN written[q].rows \cup {record.id})
    IN  CASE run[p].handler = "restaurants" -> record.name # Absent
          [] run[p].handler = "dishes" ->
                 /\ record.name # Absent
                 /\ record.id_restaurant \in DOMAIN zeltyRestaurant
          [] run[p].handler = "orders" ->
                 /\ record.status # Absent
                 /\ record.id_restaurant \in DOMAIN zeltyRestaurant
                 /\ \A k \in others : zeltyOrder[k].zeltyUuid # record.uuid

\* the rows a dish or order run leaves for the listing of handler h
SingleRun(h) ==
    [k \in 1..RemoteCount(h) |->
        IF h = "dishes"
        THEN Created(DishData(RemoteDish(k, remote.rev)), DishColumns, DishDefaults)
        ELSE Created(OrderData(RemoteOrder(k, remote.rev)), OrderColumns, OrderDefaults)]

\* C28: when a scheduled run and an on-demand run of the same synchronizer
\* overlap, neither fails because of the other: a record the store rejects
\* for one of them it would reject without the rows the other has written;
\* and the store after both is the store after one: the upsert of a record
\* (or item) that the other run has written already leaves every table as it
\* is, and a dish or order run that completes leaves for each listed record
\* the row a run on its own leaves.
C28_OverlapHarmless ==
    /\ [](\A p, q \in Procs :
            (Overlap(p, q) /\ HeaderFails(p)) => ~AcceptedWithout(p, q))
    /\ [][\A p, q \in Procs :
            (Overlap(p, q) /\ run'[p] # run[p]) =>
               /\ (run[p].pc = "upsert"
                     /\ run[p].data[run[p].pos].id \in DOMAIN written[q].rows) =>
                     UNCHANGED tables
               /\ (run[p].pc = "item" /\ CurrentItem(p).id \in DOMAIN written[q].items) =>
                     UNCHANGED tables]_vars
    /\ [][\A p \in Procs : \A h \in Paged :
            (run[p].handler = h /\ obs'[p].stats[h].result = "ok") =>
               \A k \in 1..RemoteCount(h) :
                  IF h = "dishes" THEN zeltyDish'[k] = SingleRun(h)[k]
                  ELSE zeltyOrder'[k] = SingleRun(h)[k]]_vars

\* a batch and an order command run order-sync together: the batch is on the
\* item of order 2, the command on order 2, which the batch has written
C28_Witness ==
    /\ Overlap("scheduler", "cli")
    /\ run["scheduler"].pc = "item"
    /\ run["scheduler"].pos = 2
    /\ run["cli"].pc = "upsert"
    /\ run["cli"].pos = 2
    /\ 2 \in DOMAIN written["scheduler"].rows
    /\ 1 \in DOMAIN written["cli"].rows

\* the month that directly follows the month of day d, as <<year, month>>
MonthAfter(d) == IF d.month < 12 THEN <<d.year, d.month + 1>> ELSE <<d.year + 1, 1>>

\* C29 (as claimed): the default fromDate and toDate of an order run belong
\* to the same reference month, whatever the two readings of the clock:
\* when neither bound is supplied, toDate is the last day of the month that
\* directly follows the month of fromDate; and the two bounds are the same
\* on every page request of the run.
C29_SameReferenceMonth ==
    /\ [](call.pc # "idle" /\ ~call.fromGiven /\ ~call.toGiven =>
            /\ <<call.toDate.year, call.toDate.month>> = MonthAfter(call.fromDate)
            /\ call.toDate.day = DaysInMonth(call.toDate.year, call.toDate.month)
            /\ request.from = Format(call.fromDate)
            /\ request.to = Format(call.toDate))
    /\ [][(call.pc # "idle" /\ call'.pc # "idle") =>
             /\ call'.fromDate = call.fromDate
             /\ call'.toDate = call.toDate
             /\ request'.from = request.from
             /\ request'.to = request.to]_vars

====
